---------------------------- MODULE Spec2Model ----------------------------
(***************************************************************************)
(* A model of the Banca d'Italia exchange-rate client (src/src/lib.rs):    *)
(* the generic retrieval routine get_data, the two public operations       *)
(* get_currencies and get_latest_rate, the two normalizers parse_currency  *)
(* and parse_latest_rates, and the decimal-cleaning rule clean_decimal.    *)
(*                                                                         *)
(* Text is modelled as a sequence of one-character strings, so that        *)
(* trimming and parsing are computed character by character.               *)
(***************************************************************************)
EXTENDS Integers, Sequences, FiniteSets, TLC

VARIABLES
    op,        \* pure-function specifications: the function under check
    arg,       \* ... its argument
    ret,       \* ... its result, NotCalled before the call
    client,    \* the BancaDItalia value: its only field, the transport handle
    upstream,  \* what the provider answers on each endpoint
    calls      \* each caller's get_currencies / get_latest_rate invocation

vars == <<op, arg, ret, client, upstream, calls>>

---------------------------------------------------------------------------
(* Bounds of the model *)

\* longest rate string (before padding) handed to clean_decimal
MaxRateLen == 4
\* longest record sequence handed to a normalizer or found under the key
MaxRows == 2
\* callers with a call in flight on the one client
MaxCallers == 2

---------------------------------------------------------------------------
(* Results and the error taxonomy *)

\* Result::Ok(v)
Ok(v) == [ok |-> TRUE, val |-> v]
\* Result::Err(e), e one of the kinds of BancaDItaliaError
Err(e) == [ok |-> FALSE, err |-> e]

BancaDItaliaError ==
    {"RequestFailed", "DeserializeFailed", "ApiError", "NoResult", "ConversionFailed"}

\* Option::None
None == [some |-> FALSE]
\* Option::Some(v)
Some(v) == [some |-> TRUE, val |-> v]

NotCalled == [called |-> FALSE]

---------------------------------------------------------------------------
(* Text *)

WhiteSpace == {" "}
DigitChars == {"0", "1", "2", "3", "4", "5", "6", "7", "8", "9"}

DigitVal(c) ==
    CASE c = "0" -> 0 [] c = "1" -> 1 [] c = "2" -> 2 [] c = "3" -> 3
      [] c = "4" -> 4 [] c = "5" -> 5 [] c = "6" -> 6 [] c = "7" -> 7
      [] c = "8" -> 8 [] c = "9" -> 9

RECURSIVE TrimStart(_)
\* str::trim_start: drops leading white space, one character at a time
TrimStart(s) ==
    IF s # <<>> /\ Head(s) \in WhiteSpace THEN TrimStart(Tail(s)) ELSE s

RECURSIVE TrimEnd(_)
\* str::trim_end: drops trailing white space, one character at a time
TrimEnd(s) ==
    IF s # <<>> /\ s[Len(s)] \in WhiteSpace
    THEN TrimEnd(SubSeq(s, 1, Len(s) - 1))
    ELSE s

\* str::trim, as called by clean_decimal
Trim(s) == TrimEnd(TrimStart(s))

---------------------------------------------------------------------------
(* rust_decimal::Decimal *)

\* a Decimal: sign, 96-bit mantissa, scale (number of fraction digits)
Decimal(neg, mant, scale) == [neg |-> neg, mant |-> mant, scale |-> scale]

\* Decimal::from(0)
DecimalZero == Decimal(FALSE, 0, 0)

RECURSIVE ParseRadix10(_, _, _, _, _, _, _)
\* Decimal::from_str's scan of the bytes from position i on.  first: this is
\* the first byte; neg: a '-' was read; has: a digit was read; point: the
\* '.' was read; mant, scale: the digits read so far.
ParseRadix10(s, i, first, neg, has, point, mant) ==
    IF i > Len(s)
    THEN IF has THEN Ok(Decimal(neg, mant.m, mant.scale))
                ELSE Err("no digits found")
    ELSE LET b == s[i] IN
         IF b \in DigitChars
         THEN ParseRadix10(s, i + 1, FALSE, neg, TRUE, point,
                  [m |-> mant.m * 10 + DigitVal(b),
                   scale |-> IF point THEN mant.scale + 1 ELSE mant.scale])
         ELSE IF b = "." /\ ~point
         THEN ParseRadix10(s, i + 1, FALSE, neg, has, TRUE, mant)
         ELSE IF b = "-" /\ first /\ ~has
         THEN ParseRadix10(s, i + 1, FALSE, TRUE, FALSE, FALSE, mant)
         ELSE IF b = "+" /\ first /\ ~has
         THEN ParseRadix10(s, i + 1, FALSE, FALSE, FALSE, FALSE, mant)
         ELSE IF b = "_" /\ has
         THEN ParseRadix10(s, i + 1, FALSE, neg, has, point, mant)
         ELSE IF b = "." THEN Err("two decimal points")
         ELSE IF b = "_" THEN Err("must start lead with a number")
         ELSE Err("unknown character")

\* <Decimal as FromStr>::from_str
DecimalFromStr(s) ==
    IF s = <<>> THEN Err("empty")
    ELSE ParseRadix10(s, 1, TRUE, FALSE, FALSE, FALSE, [m |-> 0, scale |-> 0])

\* the literal "N.A."
NotAvailable == <<"N", ".", "A", ".">>

\* clean_decimal without the trim
clean_decimal_untrimmed(input) ==
    IF input = NotAvailable
    THEN Ok(DecimalZero)
    ELSE LET parsed == DecimalFromStr(input) IN
         IF parsed.ok THEN parsed ELSE Err("ConversionFailed")

\* clean_decimal: trim, the sentinel, then Decimal::from_str with `?`
\* converting rust_decimal::Error into ConversionFailed
clean_decimal(input) ==
    LET cleaned == Trim(input) IN
    IF cleaned = NotAvailable
    THEN Ok(DecimalZero)
    ELSE LET parsed == DecimalFromStr(cleaned) IN
         IF parsed.ok THEN parsed ELSE Err("ConversionFailed")

---------------------------------------------------------------------------
(* date_utils::parse_to_datetime and time::OffsetDateTime::date *)

\* the number a string of digits denotes
RECURSIVE DigitsToNat(_)
DigitsToNat(s) ==
    IF s = <<>> THEN 0
    ELSE DigitsToNat(SubSeq(s, 1, Len(s) - 1)) * 10 + DigitVal(s[Len(s)])

IsLeapYear(y) == (y % 4 = 0 /\ y % 100 # 0) \/ y % 400 = 0

DaysInMonth(y, m) ==
    IF m = 2 THEN (IF IsLeapYear(y) THEN 29 ELSE 28)
    ELSE IF m \in {4, 6, 9, 11} THEN 30 ELSE 31

\* time::Date
Date(y, m, d) == [year |-> y, month |-> m, day |-> d]

\* parse_to_datetime(s, date_type, offset_type) on a calendar-date string
\* "YYYY-MM-DD": the last instant of the day (DateType::End) or the first
\* (DateType::Start), at the given offset; a DateTimeError otherwise.
parse_to_datetime(s, date_type, offset_type) ==
    IF /\ Len(s) = 10
       /\ s[5] = "-" /\ s[8] = "-"
       /\ \A i \in {1, 2, 3, 4, 6, 7, 9, 10} : s[i] \in DigitChars
    THEN LET y == DigitsToNat(SubSeq(s, 1, 4))
             m == DigitsToNat(SubSeq(s, 6, 7))
             d == DigitsToNat(SubSeq(s, 9, 10))
         IN  IF m \in 1..12 /\ d \in 1..DaysInMonth(y, m)
             THEN Ok([date |-> Date(y, m, d),
                      time |-> IF date_type = "End" THEN <<23, 59, 59>>
                                                    ELSE <<0, 0, 0>>,
                      offset |-> offset_type])
             ELSE Err("DateTimeError")
    ELSE Err("DateTimeError")

\* OffsetDateTime::date: the calendar date of the date-time in its own offset
DateOf(datetime) == datetime.date

---------------------------------------------------------------------------
(* parse_currency *)

\* the closure |c| of parse_currency losing the end date
parse_currency_country_no_end(c) ==
    LET start == parse_to_datetime(c.validity_start_date, "End", "Utc") IN
    IF ~start.ok THEN Err("ApiError")
    ELSE Ok([currencyiso |-> c.currencyiso,
             country |-> c.country,
             countryiso |-> c.countryiso,
             validity_start_date |-> DateOf(start.val),
             validity_end_date |-> None])

\* the closure |c| of parse_currency: one CountryAPI into one Country; the
\* start date is parsed first, then the end date when there is one; `?`
\* turns a DateTimeError into ApiError (From<DateTimeError>)
parse_currency_country(c) ==
    LET start == parse_to_datetime(c.validity_start_date, "End", "Utc") IN
    IF ~start.ok THEN Err("ApiError")
    ELSE LET end == IF c.validity_end_date.some
                    THEN parse_to_datetime(c.validity_end_date.val, "End", "Utc")
                    ELSE Ok(None)
         IN  IF ~end.ok THEN Err("ApiError")
             ELSE Ok([currencyiso |-> c.currencyiso,
                      country |-> c.country,
                      countryiso |-> c.countryiso,
                      validity_start_date |-> DateOf(start.val),
                      validity_end_date |->
                          IF c.validity_end_date.some
                          THEN Some(DateOf(end.val)) ELSE None])

RECURSIVE parse_currency_countries(_, _)
\* .into_iter().map(|c| ...).collect::<Result<Vec<Country>, _>>(): in input
\* order, stopping at the first Err
parse_currency_countries(countries, acc) ==
    IF countries = <<>> THEN Ok(acc)
    ELSE LET r == parse_currency_country(Head(countries)) IN
         IF ~r.ok THEN r
         ELSE parse_currency_countries(Tail(countries), Append(acc, r.val))

\* the closure |cur| of parse_currency: one CurrencyAPI into one Currency
parse_currency_record(cur) ==
    LET countries == parse_currency_countries(cur.countries, <<>>) IN
    IF ~countries.ok THEN countries
    ELSE Ok([countries |-> countries.val,
             isocode |-> cur.isocode,
             name |-> cur.name,
             graph |-> cur.graph])

RECURSIVE parse_currency_collect(_, _)
\* the outer collect::<Result<Vec<Currency>, _>>()
parse_currency_collect(currencies, acc) ==
    IF currencies = <<>> THEN Ok(acc)
    ELSE LET r == parse_currency_record(Head(currencies)) IN
         IF ~r.ok THEN r
         ELSE parse_currency_collect(Tail(currencies), Append(acc, r.val))

RECURSIVE parse_currency_skipping(_, _)
\* parse_currency dropping the records that fail instead of aborting
parse_currency_skipping(currencies, acc) ==
    IF currencies = <<>> THEN Ok(acc)
    ELSE LET r == parse_currency_record(Head(currencies)) IN
         parse_currency_skipping(Tail(currencies),
                                 IF r.ok THEN Append(acc, r.val) ELSE acc)

parse_currency_partial(currencies) == parse_currency_skipping(currencies, <<>>)

parse_currency(currencies) == parse_currency_collect(currencies, <<>>)

---------------------------------------------------------------------------
(* parse_latest_rates *)

\* the closure |rate| of parse_latest_rates: the reference date first, then
\* eur_rate, then usd_rate (the order of the struct literal)
parse_latest_rates_record(rate) ==
    LET reference_date == parse_to_datetime(rate.reference_date, "Start", "Utc") IN
    IF ~reference_date.ok THEN Err("ApiError")
    ELSE LET eur == clean_decimal(rate.eur_rate) IN
         IF ~eur.ok THEN eur
         ELSE LET usd == clean_decimal(rate.usd_rate) IN
              IF ~usd.ok THEN usd
              ELSE Ok([country |-> rate.country,
                       currency |-> rate.currency,
                       isocode |-> rate.isocode,
                       uiccode |-> rate.uiccode,
                       eur_rate |-> eur.val,
                       usd_rate |-> usd.val,
                       usd_exchange_convention |-> rate.usd_exchange_convention,
                       usd_exchange_convention_code |-> rate.usd_exchange_convention_code,
                       reference_date |-> DateOf(reference_date.val)])

RECURSIVE parse_latest_rates_collect(_, _)
\* .into_iter().map(|rate| ...).collect(): in input order, stopping at the
\* first Err
parse_latest_rates_collect(latest_rates, acc) ==
    IF latest_rates = <<>> THEN Ok(acc)
    ELSE LET r == parse_latest_rates_record(Head(latest_rates)) IN
         IF ~r.ok THEN r
         ELSE parse_latest_rates_collect(Tail(latest_rates), Append(acc, r.val))

parse_latest_rates(latest_rates) == parse_latest_rates_collect(latest_rates, <<>>)

---------------------------------------------------------------------------
(* Inputs of the pure functions *)

\* all sequences over S of length at most n
SeqsUpTo(S, n) == UNION {[1..k -> S] : k \in 0..n}

\* the characters rate strings are made of: digits, the point, the sign, the
\* digit separator, the letters of the sentinel in both cases, white space
RateAlphabet == {"0", "1", ".", "-", "_", "N", "A", "n", " "}

Padding == {<<>>, <<" ">>}

\* the strings handed to clean_decimal: any text over RateAlphabet, with or
\* without white space around it
RateStrings ==
    {l \o core \o r : l \in Padding, r \in Padding,
                      core \in SeqsUpTo(RateAlphabet, MaxRateLen)}

D_1994_01_01 == <<"1", "9", "9", "4", "-", "0", "1", "-", "0", "1">>
D_2002_06_30 == <<"2", "0", "0", "2", "-", "0", "6", "-", "3", "0">>
D_2003_01_01 == <<"2", "0", "0", "3", "-", "0", "1", "-", "0", "1">>
D_2024_01_15 == <<"2", "0", "2", "4", "-", "0", "1", "-", "1", "5">>
D_2024_02_29 == <<"2", "0", "2", "4", "-", "0", "2", "-", "2", "9">>
\* no such day
D_2023_02_29 == <<"2", "0", "2", "3", "-", "0", "2", "-", "2", "9">>
\* no date at all
D_Garbage == <<"N", ".", "A", ".">>

CountryAPI(currencyiso, country, countryiso, start, end) ==
    [currencyiso |-> currencyiso, country |-> country, countryiso |-> countryiso,
     validity_start_date |-> start, validity_end_date |-> end]

CurrencyAPI(countries, isocode, name, graph) ==
    [countries |-> countries, isocode |-> isocode, name |-> name, graph |-> graph]

Andorra == CountryAPI("ADP", "ANDORRA", Some("AD"), D_1994_01_01, Some(D_2002_06_30))
Afghanistan ==
    CountryAPI("AFN", "AFGHANISTAN (Islamic State of)", Some("AF"), D_2003_01_01, None)
MonetaryUnion ==
    CountryAPI("EUR", "EUROPEAN MONETARY UNION", None, D_2024_02_29, None)
BadStart == CountryAPI("XXA", "NOWHERE", Some("XX"), D_2023_02_29, None)
BadEnd == CountryAPI("XXB", "ELSEWHERE", Some("XY"), D_1994_01_01, Some(D_Garbage))

\* the CurrencyAPI records parse_currency is given: with one, two or no
\* countries, with and without an end date, with a start or an end date that
\* does not parse in the first or in a later country
CurrencyAPISamples ==
    {CurrencyAPI(<<Andorra>>, "ADP", "Andorran Peseta", FALSE),
     CurrencyAPI(<<Afghanistan>>, "AFN", "Afghani", TRUE),
     CurrencyAPI(<<MonetaryUnion, Andorra>>, "EUR", "Euro", TRUE),
     CurrencyAPI(<<>>, "XDR", "Special Drawing Rights", FALSE),
     CurrencyAPI(<<Andorra, BadStart>>, "XXA", "Bad start", FALSE),
     CurrencyAPI(<<BadEnd, Andorra>>, "XXB", "Bad end", TRUE)}

LatestRateAPI(country, currency, isocode, uiccode, eur, usd, date) ==
    [country |-> country, currency |-> currency, isocode |-> isocode,
     uiccode |-> uiccode, eur_rate |-> eur, usd_rate |-> usd,
     usd_exchange_convention |-> "Foreign currency amount for 1 Dollar",
     usd_exchange_convention_code |-> "C",
     reference_date |-> date]

R_1_0000 == <<"1", ".", "0", "0", "0", "0">>
R_1_0850 == <<"1", ".", "0", "8", "5", "0">>
R_77_5 == <<"7", "7", ".", "5">>
R_NA_Padded == <<" ", "N", ".", "A", ".", " ">>
R_na == <<"n", ".", "a", ".">>
R_Empty == <<>>

\* the LatestRateAPI records parse_latest_rates is given: numerals, the
\* sentinel, a date that does not parse, a rate that does not parse in either
\* field, and both at once
LatestRateAPISamples ==
    {LatestRateAPI("EUROPEAN MONETARY UNION", "Euro", "EUR", "242",
                   R_1_0000, R_1_0850, D_2024_01_15),
     LatestRateAPI("AFGHANISTAN", "Afghani", "AFN", "115",
                   R_77_5, R_NA_Padded, D_2024_01_15),
     LatestRateAPI("NOWHERE", "Bad date", "XXA", "001",
                   R_1_0000, R_1_0850, D_2023_02_29),
     LatestRateAPI("ELSEWHERE", "Bad eur", "XXB", "002",
                   R_na, R_1_0850, D_2024_02_29),
     LatestRateAPI("ANYWHERE", "Bad usd", "XXC", "003",
                   R_1_0000, R_Empty, D_2024_02_29),
     LatestRateAPI("EVERYWHERE", "Bad date and rate", "XXD", "004",
                   R_na, R_Empty, D_Garbage)}

---------------------------------------------------------------------------
(* serde_json::Value and the derived Deserialize of the API records *)

JNull == [t |-> "null"]
JBool(b) == [t |-> "bool", bool |-> b]
JNumber(n) == [t |-> "number", num |-> n]
JString(text) == [t |-> "string", str |-> text]
JArray(elems) == [t |-> "array", arr |-> elems]
\* an object: a function from its keys to their values
JObject(members) == [t |-> "object", obj |-> members]

\* Value::get(key): the member of an object, None for a missing key and for
\* any value that is not an object
ValueGet(value, key) ==
    IF value.t = "object" /\ key \in DOMAIN value.obj
    THEN Some(value.obj[key])
    ELSE None

\* Value::as_array
ValueAsArray(value) == IF value.t = "array" THEN Some(value.arr) ELSE None

\* the value a derived struct visitor reads for a field: by key from a JSON
\* object (visit_map; unknown keys are ignored), by position from a JSON
\* array (visit_seq)
StructField(value, key, pos) ==
    IF value.t = "object" THEN ValueGet(value, key)
    ELSE IF value.t = "array" /\ pos <= Len(value.arr) THEN Some(value.arr[pos])
    ELSE None

\* a struct of n fields is read from an object, or from an array of exactly
\* n elements
StructShape(value, n) ==
    \/ value.t = "object"
    \/ value.t = "array" /\ Len(value.arr) = n

\* a field of type String: required, and a JSON string
FieldString(value, key, pos) ==
    LET f == StructField(value, key, pos) IN
    IF f.some /\ f.val.t = "string" THEN Ok(f.val.str) ELSE Err("DeserializeFailed")

\* a field of type bool: required, and a JSON boolean
FieldBool(value, key, pos) ==
    LET f == StructField(value, key, pos) IN
    IF f.some /\ f.val.t = "bool" THEN Ok(f.val.bool) ELSE Err("DeserializeFailed")

\* a field of type Option<String>: None when missing or null, Some of a JSON
\* string, an error for anything else
FieldOptionString(value, key, pos) ==
    LET f == StructField(value, key, pos) IN
    IF ~f.some \/ f.val.t = "null" THEN Ok(None)
    ELSE IF f.val.t = "string" THEN Ok(Some(f.val.str))
    ELSE Err("DeserializeFailed")

\* CountryAPI's derived Deserialize
DeserializeCountryAPI(value) ==
    LET currencyiso == FieldString(value, "currencyISO", 1)
        country == FieldString(value, "country", 2)
        countryiso == FieldOptionString(value, "countryISO", 3)
        start == FieldString(value, "validityStartDate", 4)
        end == FieldOptionString(value, "validityEndDate", 5)
    IN  IF /\ StructShape(value, 5)
           /\ currencyiso.ok /\ country.ok /\ countryiso.ok /\ start.ok /\ end.ok
        THEN Ok(CountryAPI(currencyiso.val, country.val, countryiso.val,
                           start.val, end.val))
        ELSE Err("DeserializeFailed")

RECURSIVE DeserializeCountries(_, _)
\* Vec<CountryAPI>'s Deserialize: element by element, the first error ends it
DeserializeCountries(elems, acc) ==
    IF elems = <<>> THEN Ok(acc)
    ELSE LET r == DeserializeCountryAPI(Head(elems)) IN
         IF ~r.ok THEN r
         ELSE DeserializeCountries(Tail(elems), Append(acc, r.val))

\* CurrencyAPI's derived Deserialize
DeserializeCurrencyAPI(value) ==
    LET f == StructField(value, "countries", 1)
        countries == IF f.some /\ f.val.t = "array"
                     THEN DeserializeCountries(f.val.arr, <<>>)
                     ELSE Err("DeserializeFailed")
        isocode == FieldString(value, "isoCode", 2)
        name == FieldString(value, "name", 3)
        graph == FieldBool(value, "graph", 4)
    IN  IF /\ StructShape(value, 4)
           /\ countries.ok /\ isocode.ok /\ name.ok /\ graph.ok
        THEN Ok(CurrencyAPI(countries.val, isocode.val, name.val, graph.val))
        ELSE Err("DeserializeFailed")

\* LatestRateAPI's derived Deserialize
DeserializeLatestRateAPI(value) ==
    LET country == FieldString(value, "country", 1)
        currency == FieldString(value, "currency", 2)
        isocode == FieldString(value, "isoCode", 3)
        uiccode == FieldString(value, "uicCode", 4)
        eur == FieldString(value, "eurRate", 5)
        usd == FieldString(value, "usdRate", 6)
        convention == FieldString(value, "usdExchangeConvention", 7)
        code == FieldString(value, "usdExchangeConventionCode", 8)
        date == FieldString(value, "referenceDate", 9)
    IN  IF /\ StructShape(value, 9)
           /\ country.ok /\ currency.ok /\ isocode.ok /\ uiccode.ok /\ eur.ok
           /\ usd.ok /\ convention.ok /\ code.ok /\ date.ok
        THEN Ok([country |-> country.val, currency |-> currency.val,
                 isocode |-> isocode.val, uiccode |-> uiccode.val,
                 eur_rate |-> eur.val, usd_rate |-> usd.val,
                 usd_exchange_convention |-> convention.val,
                 usd_exchange_convention_code |-> code.val,
                 reference_date |-> date.val])
        ELSE Err("DeserializeFailed")

\* T's Deserialize, for the two instances of get_data<T>
DeserializeRecord(value, T) ==
    IF T = "CurrencyAPI" THEN DeserializeCurrencyAPI(value)
    ELSE DeserializeLatestRateAPI(value)

RECURSIVE from_value_collect(_, _, _)
\* Vec<T>'s Deserialize: element by element, the first error ends it
from_value_collect(elems, T, acc) ==
    IF elems = <<>> THEN Ok(acc)
    ELSE LET r == DeserializeRecord(Head(elems), T) IN
         IF ~r.ok THEN r
         ELSE from_value_collect(Tail(elems), T, Append(acc, r.val))

RECURSIVE from_value_skipping(_, _, _)
\* a Vec<T> of the elements that deserialize, the others dropped
from_value_skipping(elems, T, acc) ==
    IF elems = <<>> THEN Ok(acc)
    ELSE LET r == DeserializeRecord(Head(elems), T) IN
         from_value_skipping(Tail(elems), T,
                             IF r.ok THEN Append(acc, r.val) ELSE acc)

from_value_lenient(data, T) == from_value_skipping(data, T, <<>>)

\* serde_json::from_value::<Vec<T>>(Value::Array(data)), with `?` converting
\* serde_json::Error into DeserializeFailed
from_value(data, T) == from_value_collect(data, T, <<>>)

\* the array under the key, with anything that is not an array left to the
\* deserializer to refuse
envelope_unchecked(response, access_key) ==
    LET member == ValueGet(response, access_key) IN
    IF ~member.some THEN Err("NoResult")
    ELSE IF member.val.t = "array" THEN Ok(member.val.arr)
    ELSE Err("DeserializeFailed")

\* the array under the key, an array of no rows counted as no result
envelope_nonempty(response, access_key) ==
    LET member == ValueGet(response, access_key)
        data == IF member.some THEN ValueAsArray(member.val) ELSE None
    IN  IF data.some /\ data.val # <<>> THEN Ok(data.val) ELSE Err("NoResult")

\* get_data: response.get(access_key).and_then(Value::as_array)
\*           .ok_or(BancaDItaliaError::NoResult)?
envelope(response, access_key) ==
    LET member == ValueGet(response, access_key)
        data == IF member.some THEN ValueAsArray(member.val) ELSE None
    IN  IF data.some THEN Ok(data.val) ELSE Err("NoResult")

\* get_data from the parsed JSON document on: the array under the key, then
\* its deserialization into Vec<T>
get_data_extract(response, access_key, T) ==
    LET data == envelope(response, access_key) IN
    IF ~data.ok THEN data ELSE from_value(data.val, T)

\* the key and the record type get_currencies and get_latest_rate pass to
\* get_data
AccessKey(operation) ==
    IF operation = "get_currencies" THEN "currencies" ELSE "latestRates"

RecordType(operation) ==
    IF operation = "get_currencies" THEN "CurrencyAPI" ELSE "LatestRateAPI"

\* the normalizer get_currencies and get_latest_rate apply to get_data's Ok
Normalize(operation, records) ==
    IF operation = "get_currencies" THEN parse_currency(records)
    ELSE parse_latest_rates(records)

\* get_currencies / get_latest_rate from the parsed JSON document on: what
\* the normalizer was handed, if it was reached, and the call's result
CallOnDocument(operation, response) ==
    LET extracted == get_data_extract(response, AccessKey(operation),
                                      RecordType(operation))
    IN  IF ~extracted.ok
        THEN [handed |-> None, result |-> extracted]
        ELSE [handed |-> Some(extracted.val),
              result |-> Normalize(operation, extracted.val)]

---------------------------------------------------------------------------
(* JSON documents of the provider *)

\* a CountryAPI as the provider writes it: no countryISO member when there
\* is none, a null validityEndDate when there is none
JsonCountry(c) ==
    LET dates == [validityStartDate |-> JString(c.validity_start_date),
                  validityEndDate |-> IF c.validity_end_date.some
                                      THEN JString(c.validity_end_date.val)
                                      ELSE JNull]
        names == [currencyISO |-> JString(c.currencyiso),
                  country |-> JString(c.country)]
    IN  JObject(IF c.countryiso.some
                THEN dates @@ names @@ [countryISO |-> JString(c.countryiso.val)]
                ELSE dates @@ names)

\* a CurrencyAPI as the provider writes it
JsonCurrency(cur) ==
    JObject([countries |-> JArray([j \in 1..Len(cur.countries) |->
                                       JsonCountry(cur.countries[j])]),
             isoCode |-> JString(cur.isocode),
             name |-> JString(cur.name),
             graph |-> JBool(cur.graph)])

\* a LatestRateAPI as the provider writes it
JsonLatestRate(rate) ==
    JObject([country |-> JString(rate.country),
             currency |-> JString(rate.currency),
             isoCode |-> JString(rate.isocode),
             uicCode |-> JString(rate.uiccode),
             eurRate |-> JString(rate.eur_rate),
             usdRate |-> JString(rate.usd_rate),
             usdExchangeConvention |-> JString(rate.usd_exchange_convention),
             usdExchangeConventionCode |-> JString(rate.usd_exchange_convention_code),
             referenceDate |-> JString(rate.reference_date)])

GoodCurrency == CurrencyAPI(<<Andorra>>, "ADP", "Andorran Peseta", FALSE)
GoodCurrency2 == CurrencyAPI(<<MonetaryUnion, Afghanistan>>, "EUR", "Euro", TRUE)
BadDateCurrency == CurrencyAPI(<<Andorra, BadStart>>, "XXA", "Bad start", FALSE)

GoodRate == LatestRateAPI("EUROPEAN MONETARY UNION", "Euro", "EUR", "242",
                          R_1_0000, R_1_0850, D_2024_01_15)
GoodRate2 == LatestRateAPI("AFGHANISTAN", "Afghani", "AFN", "115",
                           R_77_5, R_NA_Padded, D_2024_01_15)
BadRate == LatestRateAPI("ELSEWHERE", "Bad eur", "XXB", "002",
                         R_na, R_1_0850, D_2024_02_29)

\* the elements found in the array under "currencies": records of the
\* expected shape (one of them unconvertible, one written by position), a
\* record without its name, one whose graph is a string, one whose country
\* lacks its name, and a null
JsonCurrencyRows ==
    {JsonCurrency(GoodCurrency),
     JsonCurrency(GoodCurrency2),
     JsonCurrency(BadDateCurrency),
     JArray(<<JArray(<<>>), JString("XDR"), JString("Special Drawing Rights"),
              JBool(FALSE)>>),
     JObject([countries |-> JArray(<<JsonCountry(Andorra)>>),
              isoCode |-> JString("ADP"), graph |-> JBool(FALSE)]),
     JObject([countries |-> JArray(<<JsonCountry(Andorra)>>),
              isoCode |-> JString("ADP"), name |-> JString("Andorran Peseta"),
              graph |-> JString("false")]),
     JObject([countries |-> JArray(<<JsonCountry(Andorra),
                                     JObject([currencyISO |-> JString("ADP")])>>),
              isoCode |-> JString("ADP"), name |-> JString("Andorran Peseta"),
              graph |-> JBool(FALSE)]),
     JNull}

\* the elements found in the array under "latestRates": records of the
\* expected shape (one of them unconvertible), a record whose eurRate is a
\* number, one without its referenceDate, and a string
JsonLatestRateRows ==
    {JsonLatestRate(GoodRate),
     JsonLatestRate(GoodRate2),
     JsonLatestRate(BadRate),
     JObject([country |-> JString("EUROPEAN MONETARY UNION"),
              currency |-> JString("Euro"), isoCode |-> JString("EUR"),
              uicCode |-> JString("242"), eurRate |-> JNumber(1),
              usdRate |-> JString(R_1_0850),
              usdExchangeConvention |-> JString("Foreign currency amount for 1 Dollar"),
              usdExchangeConventionCode |-> JString("C"),
              referenceDate |-> JString(D_2024_01_15)]),
     JObject([country |-> JString("EUROPEAN MONETARY UNION"),
              currency |-> JString("Euro"), isoCode |-> JString("EUR"),
              uicCode |-> JString("242"), eurRate |-> JString(R_1_0000),
              usdRate |-> JString(R_1_0850),
              usdExchangeConvention |-> JString("Foreign currency amount for 1 Dollar"),
              usdExchangeConventionCode |-> JString("C")]),
     JString("N.A.")}

JsonRows(operation) ==
    IF operation = "get_currencies" THEN JsonCurrencyRows ELSE JsonLatestRateRows

Operations == {"get_currencies", "get_latest_rate"}

\* the other operation's key
OtherKey(operation) ==
    IF operation = "get_currencies" THEN "latestRates" ELSE "currencies"

ResultsInfo ==
    JObject([resultsInfo |-> JObject([totalRecords |-> JNumber(0),
                                      timezoneReference |-> JString("CET"),
                                      notice |-> JString("")])])

\* an object holding `value` under `key`, beside its resultsInfo member
Envelope(key, value) == JObject((key :> value) @@ ResultsInfo.obj)

\* the documents without an array under the operation's key: values that
\* are no objects, objects without the key, objects with something else
\* than an array under it
JsonDocumentsWithoutArray(operation) ==
    {JNull,
     JArray(<<JsonCurrency(GoodCurrency)>>),
     ResultsInfo,
     Envelope(OtherKey(operation), JArray(<<>>)),
     Envelope(AccessKey(operation), JNull),
     Envelope(AccessKey(operation), JString("N.A.")),
     Envelope(AccessKey(operation), JObject([rows |-> JArray(<<>>)]))}

\* the JSON documents a call may receive
JsonDocuments(operation) ==
    JsonDocumentsWithoutArray(operation)
    \cup {Envelope(AccessKey(operation), JArray(rows)) :
              rows \in SeqsUpTo(JsonRows(operation), MaxRows)}

---------------------------------------------------------------------------
(* The client before any call *)

\* BancaDItalia::new: the reqwest Client is the only field
NewClient == [client |-> "reqwest::Client"]

\* no caller has called anything
NoCalls == <<>>
NoUpstream == <<>>

---------------------------------------------------------------------------
(* clean_decimal on every rate string *)

InitDecimal ==
    /\ op = "clean_decimal"
    /\ arg \in RateStrings
    /\ ret = NotCalled
    /\ client = NewClient /\ upstream = NoUpstream /\ calls = NoCalls

CallCleanDecimal ==
    /\ op = "clean_decimal" /\ ret = NotCalled
    /\ ret' = clean_decimal(arg)
    /\ UNCHANGED <<op, arg, client, upstream, calls>>

NextDecimal == CallCleanDecimal

SpecDecimal == InitDecimal /\ [][NextDecimal]_vars

---------------------------------------------------------------------------
(* The two normalizers on every sequence of sample records *)

InitNormalize ==
    /\ \/ op = "parse_currency" /\ arg \in SeqsUpTo(CurrencyAPISamples, MaxRows)
       \/ op = "parse_latest_rates" /\ arg \in SeqsUpTo(LatestRateAPISamples, MaxRows)
    /\ ret = NotCalled
    /\ client = NewClient /\ upstream = NoUpstream /\ calls = NoCalls

CallParseCurrency ==
    /\ op = "parse_currency" /\ ret = NotCalled
    /\ ret' = parse_currency(arg)
    /\ UNCHANGED <<op, arg, client, upstream, calls>>

CallParseLatestRates ==
    /\ op = "parse_latest_rates" /\ ret = NotCalled
    /\ ret' = parse_latest_rates(arg)
    /\ UNCHANGED <<op, arg, client, upstream, calls>>

NextNormalize == CallParseCurrency \/ CallParseLatestRates

SpecNormalize == InitNormalize /\ [][NextNormalize]_vars

---------------------------------------------------------------------------
(* get_currencies and get_latest_rate on every received JSON document *)

InitCall ==
    /\ op \in Operations
    /\ arg \in JsonDocuments(op)
    /\ ret = NotCalled
    /\ client = NewClient /\ upstream = NoUpstream /\ calls = NoCalls

CallGetCurrencies ==
    /\ op = "get_currencies" /\ ret = NotCalled
    /\ ret' = CallOnDocument("get_currencies", arg)
    /\ UNCHANGED <<op, arg, client, upstream, calls>>

CallGetLatestRate ==
    /\ op = "get_latest_rate" /\ ret = NotCalled
    /\ ret' = CallOnDocument("get_latest_rate", arg)
    /\ UNCHANGED <<op, arg, client, upstream, calls>>

NextCall == CallGetCurrencies \/ CallGetLatestRate

SpecCall == InitCall /\ [][NextCall]_vars

---------------------------------------------------------------------------
(* Concurrent calls on one client *)

Callers == 1..MaxCallers

\* the stages of a call, in the order of get_data and its caller
Stages == <<"Transport", "Envelope Extractor", "Domain Normalizer">>

\* an HTTP response: the status line and the body, which is JSON or not
Response(status, body) == [status |-> status, body |-> body]
JsonBody(doc) == [json |-> TRUE, doc |-> doc]
NotJsonBody == [json |-> FALSE]

\* what the provider may answer on an endpoint: the dataset, an empty
\* dataset, rows that do not deserialize or do not convert, a document
\* without the array, and error pages with and without a JSON body
UpstreamResponses(operation) ==
    LET rows == IF operation = "get_currencies"
                THEN [good |-> JsonCurrency(GoodCurrency),
                      good2 |-> JsonCurrency(GoodCurrency2),
                      unconvertible |-> JsonCurrency(BadDateCurrency)]
                ELSE [good |-> JsonLatestRate(GoodRate),
                      good2 |-> JsonLatestRate(GoodRate2),
                      unconvertible |-> JsonLatestRate(BadRate)]
        key == AccessKey(operation)
    IN  {Response(200, JsonBody(Envelope(key, JArray(<<rows.good, rows.good2>>)))),
         Response(200, JsonBody(Envelope(key, JArray(<<>>)))),
         Response(200, JsonBody(Envelope(key, JArray(<<rows.good, JNull>>)))),
         Response(200, JsonBody(Envelope(key, JArray(<<rows.good, rows.unconvertible>>)))),
         Response(200, JsonBody(ResultsInfo)),
         Response(200, NotJsonBody),
         Response(404, JsonBody(ResultsInfo)),
         Response(500, NotJsonBody),
         Response(500, JsonBody(Envelope(key, JArray(<<rows.good>>))))}

\* a caller that has not called yet
Idle ==
    [pc |-> "idle", operation |-> "none", received |-> None, intact |-> TRUE,
     response |-> None, data |-> None, records |-> None, result |-> None,
     ran |-> <<>>, gets |-> 0]

\* the call returns r to its caller
Return(call, r) == [call EXCEPT !.pc = "returned", !.result = Some(r)]

\* self.client.get(url).header("Accept", "application/json").send().await?
\* One GET is sent.  It fails (no connection, TLS, timeout), and `?` returns
\* RequestFailed, or the response arrives, whatever its status: the status
\* is not looked at.
SendStep(cs, c, operation, connected) ==
    LET call == [cs[c] EXCEPT !.operation = operation,
                              !.ran = Append(@, Stages[1]),
                              !.gets = @ + 1]
    IN  IF ~connected
        THEN Return(call, Err("RequestFailed"))
        ELSE [call EXCEPT !.pc = "sent", !.received = Some(upstream[operation])]

\* .json::<Value>().await? giving up the call's request and starting over
\* when the body does not arrive
JsonStepRetrying(cs, c, intact) ==
    IF ~intact THEN [cs[c] EXCEPT !.pc = "idle", !.received = None]
    ELSE LET body == cs[c].received.val.body IN
         IF ~body.json THEN Return(cs[c], Err("RequestFailed"))
         ELSE [cs[c] EXCEPT !.pc = "parsed", !.response = Some(body.doc)]

\* .json::<Value>().await?  The body is read and parsed as JSON; a body cut
\* short and a body that is no JSON are reqwest errors, and `?` returns
\* RequestFailed.
JsonStep(cs, c, intact) ==
    LET call == [cs[c] EXCEPT !.intact = intact]
        body == cs[c].received.val.body
    IN  IF ~intact \/ ~body.json
        THEN Return(call, Err("RequestFailed"))
        ELSE [call EXCEPT !.pc = "parsed", !.response = Some(body.doc)]

\* a `response` kept where the other calls put theirs: the document of
\* another call when one has parsed its own
SharedResponse(cs, c) ==
    LET others == {d \in Callers : d # c /\ cs[d].response.some} IN
    IF others = {} THEN cs[c].response.val
    ELSE cs[CHOOSE d \in others : TRUE].response.val

\* the local `response` of the call's own get_data
OwnResponse(cs, c) == cs[c].response.val

\* response.get(access_key).and_then(Value::as_array).ok_or(NoResult)?
EnvelopeStep(cs, c) ==
    LET data == envelope(OwnResponse(cs, c), AccessKey(cs[c].operation))
        call == [cs[c] EXCEPT !.ran = Append(@, Stages[2])]
    IN  IF ~data.ok THEN Return(call, data)
        ELSE [call EXCEPT !.pc = "enveloped", !.data = Some(data.val)]

\* serde_json::from_value(Value::Array(data.to_owned()))?; Ok(result)
FromValueStep(cs, c) ==
    LET result == from_value(cs[c].data.val, RecordType(cs[c].operation)) IN
    IF ~result.ok THEN Return(cs[c], result)
    ELSE [cs[c] EXCEPT !.pc = "deserialized", !.records = Some(result.val)]

\* the normalizer's result kept by the client and taken by the first call
\* to return: a later call finds it empty
NormalizeStepOnce(cs, c) ==
    LET call == [cs[c] EXCEPT !.ran = Append(@, Stages[3])] IN
    IF \E d \in Callers : /\ d # c /\ cs[d].pc = "returned"
                          /\ cs[d].operation = cs[c].operation
                          /\ cs[d].result.val.ok
    THEN Return(call, Ok(<<>>))
    ELSE Return(call, Normalize(cs[c].operation, cs[c].records.val))

\* parse_currency(...) / parse_latest_rates(...) on get_data's Ok, the value
\* of get_currencies / get_latest_rate
NormalizeStep(cs, c) ==
    LET call == [cs[c] EXCEPT !.ran = Append(@, Stages[3])] IN
    Return(call, Normalize(cs[c].operation, cs[c].records.val))

Init ==
    /\ op = "calls" /\ arg = <<>> /\ ret = NotCalled
    /\ client = NewClient
    /\ upstream \in [Operations -> UNION {UpstreamResponses(o) : o \in Operations}]
    /\ \A o \in Operations : upstream[o] \in UpstreamResponses(o)
    /\ calls = [c \in Callers |-> Idle]

\* a caller calls get_currencies or get_latest_rate: the request is sent
Send(c) ==
    /\ calls[c].pc = "idle"
    /\ \E operation \in Operations, connected \in BOOLEAN :
          calls' = [calls EXCEPT ![c] = SendStep(calls, c, operation, connected)]
    /\ UNCHANGED <<op, arg, ret, client, upstream>>

\* the body of the call's response is read as JSON
ReadJson(c) ==
    /\ calls[c].pc = "sent"
    /\ \E intact \in BOOLEAN :
          calls' = [calls EXCEPT ![c] = JsonStep(calls, c, intact)]
    /\ UNCHANGED <<op, arg, ret, client, upstream>>

\* the array under the key is looked up
ExtractEnvelope(c) ==
    /\ calls[c].pc = "parsed"
    /\ calls' = [calls EXCEPT ![c] = EnvelopeStep(calls, c)]
    /\ UNCHANGED <<op, arg, ret, client, upstream>>

\* the array is deserialized
Deserialize(c) ==
    /\ calls[c].pc = "enveloped"
    /\ calls' = [calls EXCEPT ![c] = FromValueStep(calls, c)]
    /\ UNCHANGED <<op, arg, ret, client, upstream>>

\* the records are normalized and returned
NormalizeRecords(c) ==
    /\ calls[c].pc = "deserialized"
    /\ calls' = [calls EXCEPT ![c] = NormalizeStep(calls, c)]
    /\ UNCHANGED <<op, arg, ret, client, upstream>>

Next ==
    \E c \in Callers :
        \/ Send(c)
        \/ ReadJson(c)
        \/ ExtractEnvelope(c)
        \/ Deserialize(c)
        \/ NormalizeRecords(c)

Spec == Init /\ [][Next]_vars

---------------------------------------------------------------------------
(* Claims about clean_decimal, checked under SpecDecimal *)

Called == ret # NotCalled

Min(S) == CHOOSE x \in S : \A y \in S : x <= y
Max(S) == CHOOSE x \in S : \A y \in S : x >= y

\* s without its surrounding white space: from its first to its last
\* character that is not white space
Trimmed(s) ==
    LET inked == {i \in 1..Len(s) : s[i] \notin WhiteSpace} IN
    IF inked = {} THEN <<>> ELSE SubSeq(s, Min(inked), Max(inked))

IsDigit(c) == c \in DigitChars
IsNotSeparator(c) == c # "_"

\* t without its sign
Unsigned(t) == IF t # <<>> /\ t[1] \in {"+", "-"} THEN Tail(t) ELSE t

\* a base-10 decimal numeral: an optional sign, then digits with at most one
\* point among them, and at least one digit
IsNumeral(t) ==
    LET u == Unsigned(t) IN
    /\ \A i \in 1..Len(u) : u[i] \in DigitChars \cup {"."}
    /\ Cardinality({i \in 1..Len(u) : u[i] = "."}) <= 1
    /\ \E i \in 1..Len(u) : IsDigit(u[i])

\* a numeral with digit separators: every '_' comes after some digit, and
\* what is left without the separators is a numeral
IsSeparatedNumeral(t) ==
    /\ \A i \in 1..Len(t) : t[i] = "_" => \E j \in 1..(i - 1) : IsDigit(t[j])
    /\ IsNumeral(SelectSeq(t, IsNotSeparator))

RECURSIVE Pow10(_)
Pow10(n) == IF n = 0 THEN 1 ELSE 10 * Pow10(n - 1)

\* the value a numeral denotes: its digits read as an integer, the number of
\* digits after the point as the scale
NumeralValue(t) ==
    LET u == Unsigned(t)
        digits == SelectSeq(u, IsDigit)
        points == {i \in 1..Len(u) : u[i] = "."}
        n == Len(digits)
    IN  [neg |-> t[1] = "-",
         mant |-> IF n = 0 THEN 0
                  ELSE LET sum[k \in 0..n] ==
                               IF k = 0 THEN 0
                               ELSE sum[k - 1] + DigitVal(digits[k]) * Pow10(n - k)
                       IN  sum[n],
         scale |-> IF points = {} THEN 0
                   ELSE Len(u) - (CHOOSE i \in points : TRUE)]

\* r is Ok of a Decimal of value v
IsValue(r, v) ==
    /\ r.ok
    /\ r.val.mant = v.mant /\ r.val.scale = v.scale
    /\ (v.mant # 0 => r.val.neg = v.neg)

\* C4 as stated: the sentinel (trimmed) gives zero; any other trimmed string
\* that is not a decimal numeral gives ConversionFailed; a numeral gives its
\* value.
C4_AsStated ==
    (op = "clean_decimal" /\ Called) =>
        LET t == Trimmed(arg) IN
        IF t = NotAvailable THEN IsValue(ret, DecimalZero)
        ELSE IF ~IsNumeral(t) THEN ret = Err("ConversionFailed")
        ELSE IsValue(ret, NumeralValue(t))

\* C4 as amended: the sentinel (trimmed) gives zero; any other trimmed string
\* that is not a decimal numeral, '_' separators after the first digit being
\* allowed in a numeral, gives ConversionFailed; a numeral gives the value of
\* its digits without the separators.
C4_CleanDecimal ==
    (op = "clean_decimal" /\ Called) =>
        LET t == Trimmed(arg) IN
        IF t = NotAvailable THEN IsValue(ret, DecimalZero)
        ELSE IF ~IsSeparatedNumeral(t) THEN ret = Err("ConversionFailed")
        ELSE IsValue(ret, NumeralValue(SelectSeq(t, IsNotSeparator)))

\* the sentinel with white space on both sides has been cleaned to zero
C4_Witness ==
    /\ op = "clean_decimal" /\ Called
    /\ arg = <<" ", "N", ".", "A", ".", " ">>
    /\ ret = Ok(DecimalZero)

---------------------------------------------------------------------------
(* Claims about the normalizers, checked under SpecNormalize *)

\* the date string parses
DateParses(s) == parse_to_datetime(s, "End", "Utc").ok

\* the calendar date a "YYYY-MM-DD" string spells
CalendarDate(s) ==
    [year |-> 1000 * DigitVal(s[1]) + 100 * DigitVal(s[2])
              + 10 * DigitVal(s[3]) + DigitVal(s[4]),
     month |-> 10 * DigitVal(s[6]) + DigitVal(s[7]),
     day |-> 10 * DigitVal(s[9]) + DigitVal(s[10])]

CountryDatesParse(c) ==
    /\ DateParses(c.validity_start_date)
    /\ c.validity_end_date.some => DateParses(c.validity_end_date.val)

CurrencyDatesParse(cur) ==
    \A j \in 1..Len(cur.countries) : CountryDatesParse(cur.countries[j])

\* C5: when every date string parses, parse_currency returns as many records
\* as it was given, in the same order, each with the same isocode, name and
\* graph and as many countries in the same order, each country with the same
\* currencyiso, country and countryiso, the start date its string spells,
\* and an end date exactly when the input has one.
C5_ParseCurrencyPreserves ==
    (/\ op = "parse_currency" /\ Called
     /\ \A i \in 1..Len(arg) : CurrencyDatesParse(arg[i])) =>
        /\ ret.ok
        /\ Len(ret.val) = Len(arg)
        /\ \A i \in 1..Len(arg) :
              LET in == arg[i]
                  out == ret.val[i]
              IN  /\ out.isocode = in.isocode
                  /\ out.name = in.name
                  /\ out.graph = in.graph
                  /\ Len(out.countries) = Len(in.countries)
                  /\ \A j \in 1..Len(in.countries) :
                        LET c == in.countries[j]
                            d == out.countries[j]
                        IN  /\ d.currencyiso = c.currencyiso
                            /\ d.country = c.country
                            /\ d.countryiso = c.countryiso
                            /\ d.validity_start_date =
                                   CalendarDate(c.validity_start_date)
                            /\ d.validity_end_date.some = c.validity_end_date.some

\* two records, three countries, with and without an end date, converted
C5_Witness ==
    /\ op = "parse_currency" /\ Called
    /\ Len(arg) = 2
    /\ arg[1].isocode = "EUR" /\ arg[2].isocode = "AFN"
    /\ ret.ok /\ Len(ret.val) = 2
    /\ ret.val[1].countries[2].validity_end_date = Some(Date(2002, 6, 30))

\* the i-th record of the input does not convert
RecordFails(i) ==
    IF op = "parse_currency"
    THEN ~CurrencyDatesParse(arg[i])
    ELSE \/ ~DateParses(arg[i].reference_date)
         \/ ~clean_decimal(arg[i].eur_rate).ok
         \/ ~clean_decimal(arg[i].usd_rate).ok

\* the error a record that does not convert gives: a date comes first
RecordError(i) ==
    IF op = "parse_currency" THEN "ApiError"
    ELSE IF ~DateParses(arg[i].reference_date) THEN "ApiError"
    ELSE "ConversionFailed"

\* the conversion of the i-th record alone
RecordConverted(i) ==
    IF op = "parse_currency"
    THEN parse_currency_record(arg[i]).val
    ELSE parse_latest_rates_record(arg[i]).val

\* C6: a normalizer returns either the whole converted sequence or one
\* error, never part of the sequence; the error is that of the first record
\* in input order that does not convert: ApiError for a date, ConversionFailed
\* for a rate, whatever comes after it.
C6_AllOrNothing ==
    (op \in {"parse_currency", "parse_latest_rates"} /\ Called) =>
        LET failing == {i \in 1..Len(arg) : RecordFails(i)} IN
        IF failing = {}
        THEN /\ ret.ok
             /\ Len(ret.val) = Len(arg)
             /\ \A i \in 1..Len(arg) : ret.val[i] = RecordConverted(i)
        ELSE ret = Err(RecordError(Min(failing)))

\* a rate that is no numeral in the second record, after a good first one,
\* has aborted parse_latest_rates
C6_Witness ==
    /\ op = "parse_latest_rates" /\ Called
    /\ Len(arg) = 2
    /\ arg[1].isocode = "EUR" /\ arg[2].isocode = "XXB"
    /\ ret = Err("ConversionFailed")

---------------------------------------------------------------------------
(* Claims about a call on a received document, checked under SpecCall *)

\* the document holds a JSON array under the key
HasArrayUnder(doc, key) ==
    /\ doc.t = "object"
    /\ key \in DOMAIN doc.obj
    /\ doc.obj[key].t = "array"

\* the rows of that array
RowsUnder(doc, key) == doc.obj[key].arr

\* the row has the shape of the operation's API record
RowMatches(row) == DeserializeRecord(row, RecordType(op)).ok

\* the API record the row holds
RowRecord(row) == DeserializeRecord(row, RecordType(op)).val

\* C2: when the received document has no value under the operation's key, or
\* one that is no array, get_currencies and get_latest_rate fail with
\* NoResult, and with nothing else.
C2_NoArrayIsNoResult ==
    (op \in Operations /\ Called /\ ~HasArrayUnder(arg, AccessKey(op))) =>
        /\ ret.result = Err("NoResult")
        /\ ret.handed = None

\* a document whose key holds a string has been answered with NoResult
C2_Witness ==
    /\ op = "get_latest_rate" /\ Called
    /\ arg = Envelope("latestRates", JString("N.A."))
    /\ ret.result = Err("NoResult")

\* C3: when one element of the array under the key, at any position, has
\* not the shape of the API record, the call fails with DeserializeFailed
\* and the normalizer is handed nothing; when every element has it, the
\* normalizer is handed all of them, in order.
C3_ExtractionAllOrNothing ==
    (op \in Operations /\ Called /\ HasArrayUnder(arg, AccessKey(op))) =>
        LET rows == RowsUnder(arg, AccessKey(op)) IN
        IF \E i \in 1..Len(rows) : ~RowMatches(rows[i])
        THEN /\ ret.result = Err("DeserializeFailed")
             /\ ret.handed = None
        ELSE /\ ret.handed.some
             /\ Len(ret.handed.val) = Len(rows)
             /\ \A i \in 1..Len(rows) : ret.handed.val[i] = RowRecord(rows[i])

\* a record without its name after a well-formed one has failed the call
C3_Witness ==
    /\ op = "get_currencies" /\ Called
    /\ HasArrayUnder(arg, "currencies")
    /\ Len(RowsUnder(arg, "currencies")) = 2
    /\ RowMatches(RowsUnder(arg, "currencies")[1])
    /\ RowsUnder(arg, "currencies")[2].t = "object"
    /\ ~RowMatches(RowsUnder(arg, "currencies")[2])
    /\ ret.result = Err("DeserializeFailed")

---------------------------------------------------------------------------
(* Claims about concurrent calls, checked under Spec *)

Returned(c) == calls[c].pc = "returned"

\* the status is a success status
IsSuccess(status) == status \in 200..299

\* C1 as stated: a call whose response has a status that is no success
\* status fails with RequestFailed, whatever the body.
C1_AsStated ==
    \A c \in Callers :
        (/\ Returned(c)
         /\ calls[c].received.some
         /\ ~IsSuccess(calls[c].received.val.status)) =>
            calls[c].result.val = Err("RequestFailed")

\* the result of the call run alone: of the operation on what it received
RunAlone(call) ==
    IF ~call.received.some \/ ~call.intact \/ ~call.received.val.body.json
    THEN Err("RequestFailed")
    ELSE CallOnDocument(call.operation, call.received.val.body.doc).result

\* C7: under every interleaving of the callers' calls, a call returns what
\* it would return alone on the response it received, and the client's
\* transport handle is the one it was built with.
C7_CallsIndependent ==
    /\ client = NewClient
    /\ \A c \in Callers : Returned(c) => calls[c].result.val = RunAlone(calls[c])

\* a get_latest_rate call has returned its records while a get_currencies
\* call on the same client was in flight, its document parsed
C7_Witness ==
    \E c, d \in Callers :
        /\ c # d
        /\ calls[c].operation = "get_currencies" /\ calls[c].pc = "parsed"
        /\ calls[d].operation = "get_latest_rate" /\ Returned(d)
        /\ calls[d].result.val.ok /\ Len(calls[d].result.val.val) = 2

\* the stage an error kind comes from
ErrorStage(kind) ==
    CASE kind = "RequestFailed" -> Stages[1]
      [] kind \in {"NoResult", "DeserializeFailed"} -> Stages[2]
      [] kind \in {"ApiError", "ConversionFailed"} -> Stages[3]

\* C8: the stages of a call have run in the order Transport, Envelope
\* Extractor, Domain Normalizer, each at most once, with one GET when the
\* Transport has run; a call that returned an error ran no stage after the
\* one the error comes from; a call that returned records ran all three;
\* a call that has not returned has no result.
C8_StagesInOrder ==
    \A c \in Callers :
        LET call == calls[c] IN
        /\ Len(call.ran) <= Len(Stages)
        /\ call.ran = SubSeq(Stages, 1, Len(call.ran))
        /\ call.gets = (IF call.ran = <<>> THEN 0 ELSE 1)
        /\ call.result.some <=> Returned(c)
        /\ Returned(c) =>
              IF call.result.val.ok
              THEN call.ran = Stages
              ELSE /\ call.result.val.err \in BancaDItaliaError
                   /\ call.ran[Len(call.ran)] = ErrorStage(call.result.val.err)

\* a call has returned NoResult after its Transport and its Envelope
\* Extractor ran, with one GET
C8_Witness ==
    \E c \in Callers :
        /\ Returned(c)
        /\ calls[c].result.val = Err("NoResult")
        /\ calls[c].ran = <<"Transport", "Envelope Extractor">>
        /\ calls[c].gets = 1

\* C9: two get_currencies calls that received the same response return the
\* same records, or the same error.
C9_GetCurrenciesIdempotent ==
    \A c, d \in Callers :
        (/\ Returned(c) /\ Returned(d)
         /\ calls[c].operation = "get_currencies"
         /\ calls[d].operation = "get_currencies"
         /\ calls[c].received = calls[d].received
         /\ calls[c].intact = calls[d].intact) =>
            calls[c].result = calls[d].result

\* two get_currencies calls have returned the same two records
C9_Witness ==
    \E c, d \in Callers :
        /\ c # d
        /\ Returned(c) /\ Returned(d)
        /\ calls[c].operation = "get_currencies"
        /\ calls[d].operation = "get_currencies"
        /\ calls[c].result.val.ok /\ Len(calls[c].result.val.val) = 2
        /\ calls[c].result = calls[d].result

===========================================================================
